---------------------------- MODULE Spec2Model ----------------------------
(***************************************************************************)
(* A model of barn/models.py: the catalogue's entities (Author, Category,  *)
(* Publisher, Recommender, Tag, Book, Asset, ReadingList and the           *)
(* ReadingListBooks join rows), their save() methods, and the constraints  *)
(* the schema declares (unique fields, the Book's unique 4-tuple, PROTECT  *)
(* and CASCADE foreign keys).                                              *)
(*                                                                         *)
(* The state is the persisted tables plus `last`, the instance the most    *)
(* recent request worked on as save() or delete() left it in memory, with  *)
(* the exception the request ended in.  Every action is one request:       *)
(* build or load an instance, assign the caller's values, call save() or   *)
(* delete().  A text value is a sequence of one-character strings, so that *)
(* slugify(), __str__() and the extension split are computed character by  *)
(* character.                                                              *)
(***************************************************************************)
EXTENDS Naturals, Sequences, FiniteSets

VARIABLES
    taxonomy,          \* [TaxKinds -> [Ids -> row]]: Author ... ReadingList tables
    book,              \* [Ids -> row]: the Book table
    asset,             \* [Ids -> row]: the Asset table (with the stored file)
    readinglistbooks,  \* [Ids -> row]: the ReadingListBooks table
    last               \* the last request: operation, instance in memory, error

vars == <<taxonomy, book, asset, readinglistbooks, last>>

----------------------------------------------------------------------------
(* Bounds of the model. *)

\* Primary keys available in each table.
MaxRows == 2

\* Longest text drawn exhaustively over TextChars (specification SpecText).
MaxLen == 3

Ids == 1..MaxRows

----------------------------------------------------------------------------
(* Text. *)

UpperCase == <<"A","B","C","D","E","F","G","H","I","J","K","L","M",
               "N","O","P","Q","R","S","T","U","V","W","X","Y","Z">>

LowerCase == <<"a","b","c","d","e","f","g","h","i","j","k","l","m",
               "n","o","p","q","r","s","t","u","v","w","x","y","z">>

Digits == {"0","1","2","3","4","5","6","7","8","9"}

Range(s) == {s[i] : i \in 1..Len(s)}

Letters == Range(UpperCase) \cup Range(LowerCase)

\* The regular expression class \s, on the characters the model uses.
Whitespace == {" ", "\t"}

\* The regular expression class \w on ASCII text.
WordChars == Letters \cup Digits \cup {"_"}

\* Non-ASCII characters of the model, each written as one token: U+00E9, which
\* NFKD decomposes into "e" and a combining mark, and U+00F8, which has no
\* decomposition.
EAcute == "e+acute"
OSlash == "o+slash"

\* str.lower() on one character.
LowerChar(c) ==
    IF \E i \in 1..Len(UpperCase) : UpperCase[i] = c
    THEN LowerCase[CHOOSE i \in 1..Len(UpperCase) : UpperCase[i] = c]
    ELSE c

\* str.lower()
Lower(s) == [i \in 1..Len(s) |-> LowerChar(s[i])]

\* unicodedata.normalize('NFKD', c).encode('ascii', 'ignore') on one character:
\* the base letter survives, combining marks and other non-ASCII are dropped.
AsciiChar(c) ==
    IF c = EAcute THEN <<"e">>
    ELSE IF c = OSlash THEN <<>>
    ELSE <<c>>

RECURSIVE AsciiFold(_)
AsciiFold(s) ==
    IF s = <<>> THEN <<>> ELSE AsciiChar(Head(s)) \o AsciiFold(Tail(s))

\* re.sub(r'[^\w\s-]', '', value): only word characters, whitespace and
\* hyphens are kept.
RemoveNonWord(s) ==
    SelectSeq(s, LAMBDA c : c \in WordChars \cup Whitespace \cup {"-"})

\* re.sub(r'[-\s]+', '-', value): every maximal run of hyphens and whitespace
\* becomes one hyphen.
RECURSIVE CollapseRuns(_)
CollapseRuns(s) ==
    IF s = <<>> THEN <<>>
    ELSE IF Head(s) \in Whitespace \cup {"-"}
         THEN IF Tail(s) # <<>> /\ Head(Tail(s)) \in Whitespace \cup {"-"}
              THEN CollapseRuns(Tail(s))
              ELSE <<"-">> \o CollapseRuns(Tail(s))
         ELSE <<Head(s)>> \o CollapseRuns(Tail(s))

\* str.lstrip(chars)
RECURSIVE LStrip(_, _)
LStrip(s, chars) ==
    IF s # <<>> /\ Head(s) \in chars THEN LStrip(Tail(s), chars) ELSE s

\* str.rstrip(chars)
RECURSIVE RStrip(_, _)
RStrip(s, chars) ==
    IF s # <<>> /\ s[Len(s)] \in chars
    THEN RStrip(SubSeq(s, 1, Len(s) - 1), chars)
    ELSE s

\* str.strip(chars)
Strip(s, chars) == RStrip(LStrip(s, chars), chars)

\* A mutant of slugify: punctuation becomes a separator instead of vanishing.
slugify_punct_to_hyphen(value) ==
    Strip(CollapseRuns([i \in 1..Len(AsciiFold(value)) |->
                           IF Lower(AsciiFold(value))[i] \in WordChars
                           THEN Lower(AsciiFold(value))[i] ELSE "-"]),
          {"-", "_"})

\* django.utils.text.slugify(value), allow_unicode=False:
\*   value = normalize('NFKD', value).encode('ascii', 'ignore').decode('ascii')
\*   value = re.sub(r'[^\w\s-]', '', value.lower())
\*   return re.sub(r'[-\s]+', '-', value).strip('-_')
slugify(value) ==
    Strip(CollapseRuns(RemoveNonWord(Lower(AsciiFold(value)))), {"-", "_"})

\* ' '.join(parts)
RECURSIVE JoinSpace(_)
JoinSpace(parts) ==
    IF parts = <<>> THEN <<>>
    ELSE IF Len(parts) = 1 THEN parts[1]
    ELSE parts[1] \o <<" ">> \o JoinSpace(Tail(parts))

\* Author/Category/Publisher/Recommender/Tag/ReadingList.__str__
TaxonomyStr(inst) == inst.name

\* Book.__str__
BookStr(b) ==
    JoinSpace(
        <<b.title>>
        \o (IF b.subtitle # <<>> THEN << <<"-", " ">> \o b.subtitle >> ELSE <<>>)
        \o (IF b.edition # <<>>
            THEN << <<"(">> \o b.edition \o <<" ", "e", "d", ")">> >> ELSE <<>>)
        \o (IF b.volume # <<>>
            THEN << <<"V", "o", "l", ".", " ">> \o b.volume >> ELSE <<>>))

----------------------------------------------------------------------------
(* Tables. *)

TaxKinds == {"Author", "Category", "Publisher", "Recommender", "Tag", "ReadingList"}

SlugKinds == TaxKinds \cup {"Book"}

\* An unused primary key of a table.
NoRow == [absent |-> TRUE]

Present(row) == row # NoRow

\* A nullable column: NULL, or one value.
Null == {}

Some(x) == {x}

FreeIds(table) == {i \in Ids : ~Present(table[i])}

\* The primary key an INSERT assigns; 0 stands for "self.pk is None".
NewPk(table) == CHOOSE i \in FreeIds(table) : \A j \in FreeIds(table) : i <= j

\* What `last` records of a request: the operation, the model class, the
\* instance as the caller handed it to save() (given) and as save() left it
\* (inst), its primary key afterwards, the exception raised, and for delete()
\* the number of rows it reports deleted.
NoRequest ==
    [op |-> "none", kind |-> "none", pk |-> 0, given |-> NoRow, inst |-> NoRow,
     error |-> "none", deleted |-> 0]

Saved(kind, pk, given, inst, error) ==
    [op |-> "save", kind |-> kind, pk |-> pk, given |-> given, inst |-> inst,
     error |-> error, deleted |-> 0]

Deleted(kind, pk, inst, error, count) ==
    [op |-> "delete", kind |-> kind, pk |-> pk, given |-> inst, inst |-> inst,
     error |-> error, deleted |-> count]

----------------------------------------------------------------------------
(* Slug assignment: the body every save() of a slugged model starts with. *)

\* if not self.slug: self.slug = slugify(str(self))
SlugOnSave(inst, display) ==
    IF inst.slug = <<>> THEN [inst EXCEPT !.slug = slugify(display)] ELSE inst

----------------------------------------------------------------------------
(* Author, Category, Publisher, Recommender, Tag, ReadingList. *)

\* A mutant of TaxUniqueViolation: only the name is unique.
TaxUniqueViolation_name_only(k, pk, inst) ==
    \E j \in Ids \ {pk} :
        Present(taxonomy[k][j]) /\ taxonomy[k][j].name = inst.name

\* name = CharField(unique=True); slug = SlugField(unique=True)
TaxUniqueViolation(k, pk, inst) ==
    \E j \in Ids \ {pk} :
        /\ Present(taxonomy[k][j])
        /\ \/ taxonomy[k][j].name = inst.name
           \/ taxonomy[k][j].slug = inst.slug

\* save() of a taxonomy model on an instance with primary key pk (0: none yet):
\* the slug assignment, then super().save(), an INSERT or UPDATE that the
\* unique constraints may refuse.  save() runs no validators.
TaxonomySave(k, pk, inst0) ==
    LET inst == SlugOnSave(inst0, TaxonomyStr(inst0)) IN
    /\ IF TaxUniqueViolation(k, pk, inst)
       THEN /\ taxonomy' = taxonomy
            /\ last' = Saved(k, pk, inst0, inst, "IntegrityError")
       ELSE LET id == IF pk = 0 THEN NewPk(taxonomy[k]) ELSE pk IN
            /\ taxonomy' = [taxonomy EXCEPT ![k][id] = inst]
            /\ last' = Saved(k, id, inst0, inst, "none")
    /\ UNCHANGED <<book, asset, readinglistbooks>>

AuthorSave(pk, inst) == TaxonomySave("Author", pk, inst)

CategorySave(pk, inst) == TaxonomySave("Category", pk, inst)

PublisherSave(pk, inst) == TaxonomySave("Publisher", pk, inst)

RecommenderSave(pk, inst) == TaxonomySave("Recommender", pk, inst)

TagSave(pk, inst) == TaxonomySave("Tag", pk, inst)

ReadingListSave(pk, inst) == TaxonomySave("ReadingList", pk, inst)

\* instance.save() dispatched on the instance's class.
SaveOfKind(k, pk, inst) ==
    CASE k = "Author" -> AuthorSave(pk, inst)
      [] k = "Category" -> CategorySave(pk, inst)
      [] k = "Publisher" -> PublisherSave(pk, inst)
      [] k = "Recommender" -> RecommenderSave(pk, inst)
      [] k = "Tag" -> TagSave(pk, inst)
      [] k = "ReadingList" -> ReadingListSave(pk, inst)

\* A request that builds a new instance, with the caller's name and slug, and
\* saves it.
TaxonomyCreate(k, name, slug) ==
    /\ FreeIds(taxonomy[k]) # {}
    /\ SaveOfKind(k, 0, [name |-> name, slug |-> slug])

\* A request that loads row pk, assigns a name and saves.
TaxonomyRename(k, pk, name) ==
    /\ Present(taxonomy[k][pk])
    /\ SaveOfKind(k, pk, [taxonomy[k][pk] EXCEPT !.name = name])

----------------------------------------------------------------------------
(* Book. *)

BookTuple(b) == <<b.title, b.subtitle, b.edition, b.volume>>

\* A mutant of BookUniqueViolation: the 4-tuple constraint is missing.
BookUniqueViolation_no_tuple(pk, inst) ==
    \E j \in Ids \ {pk} : Present(book[j]) /\ book[j].slug = inst.slug

\* UniqueConstraint(fields=['title', 'subtitle', 'edition', 'volume']) and
\* slug = SlugField(unique=True).  The optional fields are '' when blank, never
\* NULL, so blank values compare equal.
BookUniqueViolation(pk, inst) ==
    \E j \in Ids \ {pk} :
        /\ Present(book[j])
        /\ \/ BookTuple(book[j]) = BookTuple(inst)
           \/ book[j].slug = inst.slug

\* publisher = ForeignKey(Publisher, null=True): a set publisher is a row of
\* the Publisher table.
BookForeignKeyViolation(inst) ==
    \E p \in inst.publisher : ~(p \in Ids /\ Present(taxonomy["Publisher"][p]))

\* A mutant of BookSave: a saved Book renames the files of its Assets.
BookSave_renames_assets(pk, inst0) ==
    LET inst == SlugOnSave(inst0, BookStr(inst0)) IN
    /\ IF BookUniqueViolation(pk, inst) \/ BookForeignKeyViolation(inst)
       THEN /\ book' = book
            /\ asset' = asset
            /\ last' = Saved("Book", pk, inst0, inst, "IntegrityError")
       ELSE LET id == IF pk = 0 THEN NewPk(book) ELSE pk IN
            /\ book' = [book EXCEPT ![id] = inst]
            /\ asset' = [a \in Ids |->
                           IF Present(asset[a]) /\ asset[a].book = id
                           THEN [asset[a] EXCEPT !.file_name =
                                    BookStr(inst) \o <<".">> \o asset[a].file_extension]
                           ELSE asset[a]]
            /\ last' = Saved("Book", id, inst0, inst, "none")
    /\ UNCHANGED <<taxonomy, readinglistbooks>>

\* Book.save() on an instance with primary key pk (0: none yet): the slug
\* assignment, then super().save().  save() runs no validators: the
\* MinValueValidator and MaxValueValidator of publication_year belong to
\* full_clean(), which save() does not call.
BookSave(pk, inst0) ==
    LET inst == SlugOnSave(inst0, BookStr(inst0)) IN
    /\ IF BookUniqueViolation(pk, inst) \/ BookForeignKeyViolation(inst)
       THEN /\ book' = book
            /\ last' = Saved("Book", pk, inst0, inst, "IntegrityError")
       ELSE LET id == IF pk = 0 THEN NewPk(book) ELSE pk IN
            /\ book' = [book EXCEPT ![id] = inst]
            /\ last' = Saved("Book", id, inst0, inst, "none")
    /\ UNCHANGED <<taxonomy, asset, readinglistbooks>>

\* The validators declared on publication_year.
MinYear == 1000

MaxYear == 3000

\* A Book instance with the caller's values; t holds the four name fields.
BookInstance(t, year, pub, slug) ==
    [title |-> t.title, subtitle |-> t.subtitle, edition |-> t.edition,
     volume |-> t.volume, publisher |-> pub, publication_year |-> year,
     slug |-> slug]

\* A request that builds a new Book and saves it.
BookCreate(t, year, pub, slug) ==
    /\ FreeIds(book) # {}
    /\ BookSave(0, BookInstance(t, year, pub, slug))

\* A request that loads Book pk, assigns name fields, year and publisher, and
\* saves.
BookUpdate(pk, t, year, pub) ==
    /\ Present(book[pk])
    /\ BookSave(pk, BookInstance(t, year, pub, book[pk].slug))

\* The Assets of Book pk, and the ReadingListBooks rows of a Book or a list.
AssetsOf(pk) == {a \in Ids : Present(asset[a]) /\ asset[a].book = pk}

LinksOfBook(pk) ==
    {r \in Ids : Present(readinglistbooks[r]) /\ readinglistbooks[r].book = pk}

LinksOfList(pk) ==
    {r \in Ids : Present(readinglistbooks[r]) /\ readinglistbooks[r].reading_list = pk}

\* A mutant of BookDelete: the Book's rows in other tables are left behind.
BookDelete_no_cascade(pk) ==
    /\ Present(book[pk])
    /\ book' = [book EXCEPT ![pk] = NoRow]
    /\ last' = Deleted("Book", pk, book[pk], "none", 1)
    /\ UNCHANGED <<taxonomy, asset, readinglistbooks>>

\* book.delete(): Asset.book and ReadingListBooks.book are on_delete=CASCADE.
BookDelete(pk) ==
    /\ Present(book[pk])
    /\ book' = [book EXCEPT ![pk] = NoRow]
    /\ asset' = [a \in Ids |-> IF a \in AssetsOf(pk) THEN NoRow ELSE asset[a]]
    /\ readinglistbooks' =
           [r \in Ids |-> IF r \in LinksOfBook(pk) THEN NoRow ELSE readinglistbooks[r]]
    /\ last' = Deleted("Book", pk, book[pk], "none",
                        1 + Cardinality(AssetsOf(pk)) + Cardinality(LinksOfBook(pk)))
    /\ UNCHANGED taxonomy

----------------------------------------------------------------------------
(* Deleting taxonomy rows. *)

\* A mutant of PublisherDelete: the reference is not protected.
PublisherDelete_unprotected(pk) ==
    /\ Present(taxonomy["Publisher"][pk])
    /\ taxonomy' = [taxonomy EXCEPT !["Publisher"][pk] = NoRow]
    /\ last' = Deleted("Publisher", pk, taxonomy["Publisher"][pk], "none", 1)
    /\ UNCHANGED <<book, asset, readinglistbooks>>

\* publisher.delete(): Book.publisher is on_delete=PROTECT.
PublisherDelete(pk) ==
    /\ Present(taxonomy["Publisher"][pk])
    /\ IF \E b \in Ids : Present(book[b]) /\ book[b].publisher = Some(pk)
       THEN /\ taxonomy' = taxonomy
            /\ last' = Deleted("Publisher", pk, taxonomy["Publisher"][pk],
                               "ProtectedError", 0)
       ELSE /\ taxonomy' = [taxonomy EXCEPT !["Publisher"][pk] = NoRow]
            /\ last' = Deleted("Publisher", pk, taxonomy["Publisher"][pk], "none", 1)
    /\ UNCHANGED <<book, asset, readinglistbooks>>

\* reading_list.delete(): ReadingListBooks.reading_list is on_delete=CASCADE.
ReadingListDelete(pk) ==
    /\ Present(taxonomy["ReadingList"][pk])
    /\ taxonomy' = [taxonomy EXCEPT !["ReadingList"][pk] = NoRow]
    /\ readinglistbooks' =
           [r \in Ids |-> IF r \in LinksOfList(pk) THEN NoRow ELSE readinglistbooks[r]]
    /\ last' = Deleted("ReadingList", pk, taxonomy["ReadingList"][pk], "none",
                        1 + Cardinality(LinksOfList(pk)))
    /\ UNCHANGED <<book, asset>>

\* delete() of an Author, Category, Recommender or Tag: the row goes, and the
\* Books that listed it stay (the many-to-many link rows, which this model does
\* not hold, are what the deletion takes with it).
TaxonomyDelete(k, pk) ==
    /\ k \in {"Author", "Category", "Recommender", "Tag"}
    /\ Present(taxonomy[k][pk])
    /\ taxonomy' = [taxonomy EXCEPT ![k][pk] = NoRow]
    /\ last' = Deleted(k, pk, taxonomy[k][pk], "none", 1)
    /\ UNCHANGED <<book, asset, readinglistbooks>>

\* instance.delete() dispatched on the instance's class.
DeleteOfKind(k, pk) ==
    CASE k = "Publisher" -> PublisherDelete(pk)
      [] k = "ReadingList" -> ReadingListDelete(pk)
      [] k = "Book" -> BookDelete(pk)
      [] OTHER -> TaxonomyDelete(k, pk)

----------------------------------------------------------------------------
(* ReadingListBooks. *)

\* ReadingListBooks(book=b, reading_list=l).save(): both foreign keys must
\* name a row; the table has no unique constraint, so a Book may be linked to
\* a list more than once.
ReadingListBooksCreate(b, l) ==
    /\ FreeIds(readinglistbooks) # {}
    /\ IF Present(book[b]) /\ Present(taxonomy["ReadingList"][l])
       THEN /\ readinglistbooks' =
                   [readinglistbooks EXCEPT ![NewPk(readinglistbooks)] =
                        [book |-> b, reading_list |-> l]]
            /\ last' = Saved("ReadingListBooks", NewPk(readinglistbooks),
                             [book |-> b, reading_list |-> l],
                             [book |-> b, reading_list |-> l], "none")
       ELSE /\ readinglistbooks' = readinglistbooks
            /\ last' = Saved("ReadingListBooks", 0,
                             [book |-> b, reading_list |-> l],
                             [book |-> b, reading_list |-> l], "IntegrityError")
    /\ UNCHANGED <<taxonomy, book, asset>>

\* link.delete()
ReadingListBooksDelete(pk) ==
    /\ Present(readinglistbooks[pk])
    /\ readinglistbooks' = [readinglistbooks EXCEPT ![pk] = NoRow]
    /\ last' = Deleted("ReadingListBooks", pk, readinglistbooks[pk], "none", 1)
    /\ UNCHANGED <<taxonomy, book, asset>>

----------------------------------------------------------------------------
(* Asset. *)

\* str.split(sep): the parts between the separators.
RECURSIVE Split(_, _)
Split(s, sep) ==
    IF \A i \in 1..Len(s) : s[i] # sep
    THEN <<s>>
    ELSE LET i == CHOOSE i \in 1..Len(s) : s[i] = sep /\ \A j \in 1..(i - 1) : s[j] # sep
         IN <<SubSeq(s, 1, i - 1)>> \o Split(SubSeq(s, i + 1, Len(s)), sep)

\* parts[-1]
LastOf(parts) == parts[Len(parts)]

\* file.seek(offset, whence): whence 0 counts from the start, 2 from the end.
Seek(f, offset, whence) ==
    [f EXCEPT !.pos = IF whence = 2 THEN Len(f.content) + offset ELSE offset]

\* file.tell()
Tell(f) == f.pos

\* The bytes file.read() returns: from the read position to the end.
ReadData(f) == SubSeq(f.content, f.pos + 1, Len(f.content))

\* The file after file.read(): the read position is at the end.
AfterRead(f) == [f EXCEPT !.pos = Len(f.content)]

\* hashlib.blake2b(data).hexdigest(): a digest without collisions, modelled as
\* an injective numbering of byte strings.
RECURSIVE blake2b(_)
blake2b(data) ==
    IF data = <<>> THEN 0
    ELSE blake2b(SubSeq(data, 1, Len(data) - 1)) * 257 + data[Len(data)] + 1

\* A mutant of AssetComputed: the file is not rewound before it is hashed, and
\* the size is taken where the caller left the read position.
AssetComputed_no_rewind(inst, b) ==
    LET ext == Lower(LastOf(Split(inst.file.name, ".")))
        data == ReadData(inst.file)
    IN  [inst EXCEPT !.file_extension = ext,
                     !.file_name = BookStr(b) \o <<".">> \o ext,
                     !.file_size = Tell(inst.file),
                     !.file_hash = blake2b(data),
                     !.file = AfterRead(inst.file)]

\* The statements of Asset.save() before super().save(), on an instance whose
\* book is b:
\*   self.file_extension = self.file.name.split('.')[-1].lower()
\*   self.file_name = f'{str(self.book)}.{self.file_extension}'
\*   self.file.seek(0, 2); self.file_size = self.file.tell()
\*   self.file.seek(0); self.file_hash = blake2b(self.file.read()).hexdigest()
\*   self.file.seek(0)
AssetComputed(inst, b) ==
    LET ext == Lower(LastOf(Split(inst.file.name, ".")))
        atEnd == Seek(inst.file, 0, 2)
        size == Tell(atEnd)
        atStart == Seek(atEnd, 0, 0)
        data == ReadData(atStart)
        afterRead == AfterRead(atStart)
    IN  [inst EXCEPT !.file_extension = ext,
                     !.file_name = BookStr(b) \o <<".">> \o ext,
                     !.file_size = size,
                     !.file_hash = blake2b(data),
                     !.file = Seek(afterRead, 0, 0)]

\* A mutant of AssetUniqueViolation: the hash is unique only within one Book.
AssetUniqueViolation_per_book(pk, inst) ==
    \E j \in Ids \ {pk} :
        /\ Present(asset[j])
        /\ asset[j].file_hash = inst.file_hash
        /\ asset[j].book = inst.book

\* file_hash = CharField(unique=True)
AssetUniqueViolation(pk, inst) ==
    \E j \in Ids \ {pk} : Present(asset[j]) /\ asset[j].file_hash = inst.file_hash

\* upload_to='assets/'
UploadTo == <<"a", "s", "s", "e", "t", "s", "/">>

\* FileField.pre_save(): a file not yet committed is written to the storage
\* under upload_to; the storage receives what the file yields from its read
\* position on.
Committed(f) ==
    IF f.committed THEN f
    ELSE [name |-> UploadTo \o f.name, content |-> ReadData(f), pos |-> 0,
          committed |-> TRUE]

\* Asset.save() on an instance with primary key pk (0: none yet).  `last`
\* keeps the instance as the statements above left it when super().save() was
\* called.
AssetSave(pk, inst0) ==
    LET inst == AssetComputed(inst0, book[inst0.book]) IN
    /\ IF AssetUniqueViolation(pk, inst)
       THEN /\ asset' = asset
            /\ last' = Saved("Asset", pk, inst0, inst, "IntegrityError")
       ELSE LET id == IF pk = 0 THEN NewPk(asset) ELSE pk IN
            /\ asset' = [asset EXCEPT ![id] = [inst EXCEPT !.file = Committed(inst.file)]]
            /\ last' = Saved("Asset", id, inst0, inst, "none")
    /\ UNCHANGED <<taxonomy, book, readinglistbooks>>

\* An uploaded file as the caller hands it over: read up to pos.
Upload(name, content, pos) ==
    [name |-> name, content |-> content, pos |-> pos, committed |-> FALSE]

\* Values a caller may have put in the computed fields.
CallerValues == {[text |-> <<>>, number |-> 0], [text |-> <<"z">>, number |-> 9]}

\* A request that attaches an uploaded file to Book b as a new Asset and saves
\* it.  Asset.book is a required reference: b is a persisted Book.
AssetCreate(b, f, given) ==
    /\ FreeIds(asset) # {}
    /\ Present(book[b])
    /\ AssetSave(0, [book |-> b, file |-> f, file_name |-> given.text,
                     file_extension |-> given.text, file_size |-> given.number,
                     file_hash |-> given.number])

\* A request that loads Asset pk, reads its stored file up to pos, and saves.
AssetResave(pk, pos) ==
    /\ Present(asset[pk])
    /\ pos \in 0..Len(asset[pk].file.content)
    /\ AssetSave(pk, [asset[pk] EXCEPT !.file.pos = pos])

\* A request that loads Asset pk, assigns a newly uploaded file and saves.
AssetReplace(pk, f) ==
    /\ Present(asset[pk])
    /\ AssetSave(pk, [asset[pk] EXCEPT !.file = f])

\* asset.delete()
AssetDelete(pk) ==
    /\ Present(asset[pk])
    /\ asset' = [asset EXCEPT ![pk] = NoRow]
    /\ last' = Deleted("Asset", pk, asset[pk], "none", 1)
    /\ UNCHANGED <<taxonomy, book, readinglistbooks>>

----------------------------------------------------------------------------
(* The initial state: empty tables, no request made yet. *)

Init ==
    /\ taxonomy = [k \in TaxKinds |-> [i \in Ids |-> NoRow]]
    /\ book = [i \in Ids |-> NoRow]
    /\ asset = [i \in Ids |-> NoRow]
    /\ readinglistbooks = [i \in Ids |-> NoRow]
    /\ last = NoRequest

----------------------------------------------------------------------------
(* SpecText: slug assignment as a function of the text.  One request on   *)
(* the empty tables, its name drawn from every text of at most MaxLen      *)
(* characters over TextChars, or a Book's four fields from BookTexts.      *)

TextChars == {"a", "B", "1", " ", "-", "_", ".", EAcute, OSlash}

Texts(n) == UNION {[1..m -> TextChars] : m \in 0..n}

\* title "Foo", subtitle "Bar", edition "2nd", volume "1"
FooBar ==
    [title |-> <<"F", "o", "o">>, subtitle |-> <<"B", "a", "r">>,
     edition |-> <<"2", "n", "d">>, volume |-> <<"1">>]

BookTexts ==
    {FooBar} \cup
    [title : Texts(1) \ {<<>>}, subtitle : Texts(1), edition : Texts(1),
     volume : Texts(1)]

DrawTaxonomyText ==
    /\ last = NoRequest
    /\ \E k \in TaxKinds, s \in Texts(MaxLen) : TaxonomyCreate(k, s, <<>>)

DrawBookText ==
    /\ last = NoRequest
    /\ \E t \in BookTexts : BookCreate(t, Null, Null, <<>>)

NextText == DrawTaxonomyText \/ DrawBookText

SpecText == Init /\ [][NextText]_vars

----------------------------------------------------------------------------
(* SpecSlug: the life of slugged rows.  Requests create, rename and delete *)
(* rows of one model class at a time (the tables of different classes      *)
(* share no constraint), with names that collide after slugify and a name  *)
(* that slugify empties.                                                   *)

TaxNames == {<<"A", " ", "b">>, <<"a", "-", "b">>, <<"!">>, <<"c">>}

\* The slug a caller passes to a new instance: none, or one of the caller's.
GivenSlugs == {<<>>, <<"x">>}

BookNames ==
    {[title |-> <<"A", " ", "b">>, subtitle |-> <<>>, edition |-> <<>>, volume |-> <<>>],
     [title |-> <<"a">>, subtitle |-> <<"b">>, edition |-> <<>>, volume |-> <<>>],
     [title |-> <<"!">>, subtitle |-> <<>>, edition |-> <<>>, volume |-> <<>>],
     [title |-> <<"a">>, subtitle |-> <<>>, edition |-> <<"2">>, volume |-> <<"1">>]}

\* No row of a slugged class other than k is persisted.
OnlyKind(k) ==
    /\ \A k2 \in TaxKinds \ {k} : \A i \in Ids : ~Present(taxonomy[k2][i])
    /\ k # "Book" => \A i \in Ids : ~Present(book[i])

SlugCreate ==
    \E k \in TaxKinds, n \in TaxNames, g \in GivenSlugs :
        OnlyKind(k) /\ TaxonomyCreate(k, n, g)

SlugRename ==
    \E k \in TaxKinds, pk \in Ids, n \in TaxNames : TaxonomyRename(k, pk, n)

SlugDelete == \E k \in TaxKinds, pk \in Ids : DeleteOfKind(k, pk)

SlugBookCreate ==
    \E t \in BookNames, g \in GivenSlugs :
        OnlyKind("Book") /\ BookCreate(t, Null, Null, g)

SlugBookUpdate ==
    \E pk \in Ids, t \in BookNames :
        /\ Present(book[pk])
        /\ BookUpdate(pk, t, book[pk].publication_year, book[pk].publisher)

SlugBookDelete == \E pk \in Ids : BookDelete(pk)

NextSlug ==
    \/ SlugCreate
    \/ SlugRename
    \/ SlugDelete
    \/ SlugBookCreate
    \/ SlugBookUpdate
    \/ SlugBookDelete

SpecSlug == Init /\ [][NextSlug]_vars

----------------------------------------------------------------------------
(* SpecYear: Books saved with publication years at and around the bounds   *)
(* the validators name.                                                    *)

YearInputs ==
    {Null, Some(MinYear - 1), Some(MinYear), Some(MaxYear), Some(MaxYear + 1)}

YearBookNames ==
    {[title |-> <<"a">>, subtitle |-> <<>>, edition |-> <<>>, volume |-> <<>>],
     [title |-> <<"c">>, subtitle |-> <<>>, edition |-> <<>>, volume |-> <<>>]}

YearBookCreate ==
    \E t \in YearBookNames, y \in YearInputs : BookCreate(t, y, Null, <<>>)

YearBookUpdate ==
    \E pk \in Ids, y \in YearInputs :
        /\ Present(book[pk])
        /\ BookUpdate(pk, book[pk], y, book[pk].publisher)

YearBookDelete == \E pk \in Ids : BookDelete(pk)

NextYear == YearBookCreate \/ YearBookUpdate \/ YearBookDelete

SpecYear == Init /\ [][NextYear]_vars

----------------------------------------------------------------------------
(* SpecProtect: Publishers and the Books that reference them.              *)

PublisherNames == {<<"p">>, <<"q">>}

\* The publisher a caller assigns: none, or the Publisher with some key
\* (which may be the key of no row).
PublisherInputs == {Null} \cup {Some(p) : p \in Ids}

ProtectPublisherCreate ==
    \E n \in PublisherNames : TaxonomyCreate("Publisher", n, <<>>)

ProtectPublisherDelete == \E pk \in Ids : PublisherDelete(pk)

ProtectBookCreate ==
    \E t \in YearBookNames, p \in PublisherInputs : BookCreate(t, Null, p, <<>>)

ProtectBookUpdate ==
    \E pk \in Ids, p \in PublisherInputs :
        /\ Present(book[pk])
        /\ BookUpdate(pk, book[pk], book[pk].publication_year, p)

ProtectBookDelete == \E pk \in Ids : BookDelete(pk)

NextProtect ==
    \/ ProtectPublisherCreate
    \/ ProtectPublisherDelete
    \/ ProtectBookCreate
    \/ ProtectBookUpdate
    \/ ProtectBookDelete

SpecProtect == Init /\ [][NextProtect]_vars

----------------------------------------------------------------------------
(* SpecCascade: Books with their Assets and reading-list rows, and the     *)
(* deletions that take rows of other tables with them.                     *)

CascadeUploads ==
    {Upload(<<"a", ".", "p">>, <<1>>, 0), Upload(<<"b", ".", "p">>, <<2>>, 0)}

ReadingListNames == {<<"r">>}

TagNames == {<<"t">>}

CascadeBookCreate == \E t \in YearBookNames : BookCreate(t, Null, Null, <<>>)

CascadeBookDelete == \E pk \in Ids : BookDelete(pk)

CascadeAssetCreate ==
    \E b \in Ids, f \in CascadeUploads :
        AssetCreate(b, f, [text |-> <<>>, number |-> 0])

CascadeAssetDelete == \E pk \in Ids : AssetDelete(pk)

CascadeListCreate ==
    \E n \in ReadingListNames : TaxonomyCreate("ReadingList", n, <<>>)

CascadeListDelete == \E pk \in Ids : ReadingListDelete(pk)

CascadeTagCreate == \E n \in TagNames : TaxonomyCreate("Tag", n, <<>>)

CascadeTagDelete == \E pk \in Ids : TaxonomyDelete("Tag", pk)

CascadeLinkCreate == \E b \in Ids, l \in Ids : ReadingListBooksCreate(b, l)

CascadeLinkDelete == \E pk \in Ids : ReadingListBooksDelete(pk)

NextCascade ==
    \/ CascadeBookCreate
    \/ CascadeBookDelete
    \/ CascadeAssetCreate
    \/ CascadeAssetDelete
    \/ CascadeListCreate
    \/ CascadeListDelete
    \/ CascadeTagCreate
    \/ CascadeTagDelete
    \/ CascadeLinkCreate
    \/ CascadeLinkDelete

SpecCascade == Init /\ [][NextCascade]_vars

----------------------------------------------------------------------------
(* SpecAsset: Books and the files attached to them.  Uploads differ in     *)
(* name, content and read position; a file name has an upper-case          *)
(* extension, several dots or none.                                        *)

AssetBookNames ==
    {[title |-> <<"A", " ", "b">>, subtitle |-> <<>>, edition |-> <<>>, volume |-> <<>>],
     [title |-> <<"a">>, subtitle |-> <<>>, edition |-> <<"2">>, volume |-> <<"1">>]}

\* Read positions a caller may leave a file at: the start, or one byte in
\* (the middle of a two-byte file, the end of a one-byte file).
ReadPositions == {0, 1}

\* Every name with every content, half of them partly read.
Uploads ==
    {Upload(<<"n", ".", "t", ".", "G", "z">>, <<1, 2>>, 1),
     Upload(<<"n", ".", "t", ".", "G", "z">>, <<3>>, 0),
     Upload(<<"R">>, <<1, 2>>, 0),
     Upload(<<"R">>, <<3>>, 1)}

AssetBookCreate == \E t \in AssetBookNames : BookCreate(t, Null, Null, <<>>)

AssetBookRename ==
    \E pk \in Ids, t \in AssetBookNames :
        /\ Present(book[pk])
        /\ BookUpdate(pk, t, book[pk].publication_year, book[pk].publisher)

AssetUpload ==
    \E b \in Ids, f \in Uploads, v \in CallerValues : AssetCreate(b, f, v)

AssetAgain == \E pk \in Ids, pos \in ReadPositions : AssetResave(pk, pos)

AssetNewFile == \E pk \in Ids, f \in Uploads : AssetReplace(pk, f)

NextAsset ==
    \/ AssetBookCreate
    \/ AssetBookRename
    \/ AssetUpload
    \/ AssetAgain
    \/ AssetNewFile

SpecAsset == Init /\ [][NextAsset]_vars

----------------------------------------------------------------------------
(* The claims' vocabulary, defined apart from the model of the code. *)

\* The table of a slugged class.
TableOf(k) == IF k = "Book" THEN book ELSE taxonomy[k]

\* What names a slugged row: the name, or the Book's 4-tuple.
NameOf(k, row) == IF k = "Book" THEN BookTuple(row) ELSE row.name

\* The Book's display string `title [- subtitle] [(edition ed)] [Vol. volume]`,
\* each optional part present exactly when its field is non-empty.
TitleLine(b) ==
    b.title
    \o (IF b.subtitle = <<>> THEN <<>> ELSE <<" ", "-", " ">> \o b.subtitle)
    \o (IF b.edition = <<>> THEN <<>>
        ELSE <<" ", "(">> \o b.edition \o <<" ", "e", "d", ")">>)
    \o (IF b.volume = <<>> THEN <<>>
        ELSE <<" ", "V", "o", "l", ".", " ">> \o b.volume)

DisplayString(k, inst) == IF k = "Book" THEN TitleLine(inst) ELSE inst.name

\* One character reduced to what a slug may hold: a lowercase ASCII letter, a
\* digit or an underscore as itself, whitespace and hyphen as the separator
\* "-", anything else as nothing.
Reduced(c) ==
    IF c = EAcute THEN <<"e">>
    ELSE IF c \in Range(LowerCase) \cup Digits \cup {"_"} THEN <<c>>
    ELSE IF c \in Range(UpperCase) THEN <<LowerChar(c)>>
    ELSE IF c \in Whitespace \cup {"-"} THEN <<"-">>
    ELSE <<>>

RECURSIVE ReducedText(_)
ReducedText(s) ==
    IF s = <<>> THEN <<>> ELSE Reduced(Head(s)) \o ReducedText(Tail(s))

\* s from position i on, each separator that follows a separator left out.
RECURSIVE Squeezed(_, _)
Squeezed(s, i) ==
    IF i > Len(s) THEN <<>>
    ELSE IF s[i] = "-" /\ i > 1 /\ s[i - 1] = "-" THEN Squeezed(s, i + 1)
    ELSE <<s[i]>> \o Squeezed(s, i + 1)

\* The normalization as amended: reduce to ASCII, lowercase, delete every
\* character that is not a letter, digit, underscore, whitespace or hyphen,
\* cut leading and trailing hyphens and underscores, and make every run of
\* whitespace and hyphens one hyphen.
Normalize(s) ==
    LET r == ReducedText(s)
        inner == {i \in 1..Len(r) : r[i] \notin {"-", "_"}}
    IN  IF inner = {} THEN <<>>
        ELSE LET first == CHOOSE i \in inner : \A j \in inner : i <= j
                 final == CHOOSE i \in inner : \A j \in inner : j <= i
             IN  Squeezed(SubSeq(r, first, final), 1)

\* The normalization as the specification states it: lowercase, every run of
\* non-alphanumeric characters one hyphen, leading and trailing hyphens cut.
\* (Accents are folded first, as the data model section says.)
StatedReduced(c) ==
    IF c = EAcute THEN <<"e">>
    ELSE IF c = OSlash THEN <<>>
    ELSE IF c \in Letters \cup Digits THEN <<LowerChar(c)>>
    ELSE <<"-">>

RECURSIVE StatedReducedText(_)
StatedReducedText(s) ==
    IF s = <<>> THEN <<>> ELSE StatedReduced(Head(s)) \o StatedReducedText(Tail(s))

NormalizeAsStated(s) ==
    LET r == StatedReducedText(s)
        inner == {i \in 1..Len(r) : r[i] # "-"}
    IN  IF inner = {} THEN <<>>
        ELSE LET first == CHOOSE i \in inner : \A j \in inner : i <= j
                 final == CHOOSE i \in inner : \A j \in inner : j <= i
             IN  Squeezed(SubSeq(r, first, final), 1)

\* The last request saved an instance of a slugged class that came without a
\* slug.
SavedWithoutSlug ==
    last.op = "save" /\ last.kind \in SlugKinds /\ last.given.slug = <<>>

FooBarDisplay ==
    <<"F", "o", "o", " ", "-", " ", "B", "a", "r", " ", "(", "2", "n", "d", " ",
      "e", "d", ")", " ", "V", "o", "l", ".", " ", "1">>

FooBarSlug ==
    <<"f", "o", "o", "-", "b", "a", "r", "-", "2", "n", "d", "-", "e", "d", "-",
      "v", "o", "l", "-", "1">>

----------------------------------------------------------------------------
(* The claims. *)

\* C1 (as stated): across any save of a persisted Author, Category, Publisher,
\* Recommender, Tag, ReadingList or Book, whatever name the instance now
\* carries, the persisted slug stays the value the first save gave it.
C1_SlugFixedByFirstSave ==
    [][\A k \in SlugKinds : \A i \in Ids :
          (/\ Present(TableOf(k)[i])
           /\ last'.op = "save" /\ last'.kind = k /\ last'.pk = i)
          => TableOf(k)'[i].slug = TableOf(k)[i].slug]_vars

\* C2 (amended): saving an instance whose slug is empty sets its slug to the
\* normalization of its display string, the name or the Book's composed
\* title line; the normalization reduces the text to lowercase ASCII, deletes
\* every character that is not a letter, digit, underscore, whitespace or
\* hyphen, makes each run of whitespace and hyphens one hyphen and cuts
\* leading and trailing hyphens and underscores.  "Foo", "Bar", "2nd", "1"
\* gives "Foo - Bar (2nd ed) Vol. 1" and "foo-bar-2nd-ed-vol-1".
C2_SlugIsNormalizedDisplay ==
    SavedWithoutSlug =>
        /\ last.inst.slug = Normalize(DisplayString(last.kind, last.given))
        /\ last.error = "none" => TableOf(last.kind)[last.pk].slug = last.inst.slug
        /\ (last.kind = "Book" /\ BookTuple(last.given) = BookTuple(FooBar)) =>
               /\ BookStr(last.given) = FooBarDisplay
               /\ last.inst.slug = FooBarSlug

\* C2, witness: a Book with all four fields set was saved without a slug and
\* got the slug of its whole title line.
C2_Witness ==
    /\ SavedWithoutSlug
    /\ last.kind = "Book"
    /\ BookTuple(last.given) = BookTuple(FooBar)
    /\ last.error = "none"
    /\ book[last.pk].slug = FooBarSlug

\* C2 (as stated): the slug set is the display string lowercased, with every
\* run of non-alphanumeric characters collapsed to one hyphen and leading and
\* trailing hyphens stripped.
C2_SlugAsStated ==
    SavedWithoutSlug =>
        last.inst.slug = NormalizeAsStated(DisplayString(last.kind, last.given))

\* C6: when an instance saved without a slug has a display string that
\* normalizes to the slug of another persisted row of its class, a row with a
\* different name (4-tuple), the save fails with a uniqueness violation: the
\* instance's slug is the plain normalization, without a suffix, and no table
\* changes.
C6_SlugCollisionFails ==
    [][(/\ last'.op = "save" /\ last'.kind \in SlugKinds /\ last'.given.slug = <<>>
        /\ \E j \in Ids \ {last'.pk} :
              /\ Present(TableOf(last'.kind)[j])
              /\ NameOf(last'.kind, TableOf(last'.kind)[j])
                     # NameOf(last'.kind, last'.given)
              /\ TableOf(last'.kind)[j].slug
                     = Normalize(DisplayString(last'.kind, last'.given)))
       => /\ last'.error = "IntegrityError"
          /\ last'.inst.slug = Normalize(DisplayString(last'.kind, last'.given))
          /\ taxonomy' = taxonomy /\ book' = book]_vars

\* C6, witness: a new instance without a slug was refused while a row with
\* another name holds the slug its name normalizes to.
C6_Witness ==
    /\ SavedWithoutSlug
    /\ last.pk = 0
    /\ last.error = "IntegrityError"
    /\ last.inst.slug # <<>>
    /\ \E j \in Ids :
          /\ Present(TableOf(last.kind)[j])
          /\ NameOf(last.kind, TableOf(last.kind)[j]) # NameOf(last.kind, last.given)
          /\ TableOf(last.kind)[j].slug = last.inst.slug

\* The part of a file name after its last ".", the whole name when it has no
\* ".": its longest suffix that holds no ".".
DotSuffix(name) ==
    LET cut == CHOOSE k \in 0..Len(name) :
                   /\ \A i \in (k + 1)..Len(name) : name[i] # "."
                   /\ k = 0 \/ name[k] = "."
    IN  SubSeq(name, cut + 1, Len(name))

\* The last request saved an Asset.
AssetSaved == last.op = "save" /\ last.kind = "Asset"

\* C3: no two persisted Assets have the same file_hash, and saving an Asset
\* whose file holds the same bytes as the stored file of another persisted
\* Asset fails with a uniqueness violation and changes no row, whatever the
\* file names and the Books.
C3_NoTwoAssetsShareContent ==
    [][/\ \A i \in Ids : \A j \in Ids \ {i} :
             Present(asset'[i]) /\ Present(asset'[j])
                 => asset'[i].file_hash # asset'[j].file_hash
       /\ (/\ last'.op = "save" /\ last'.kind = "Asset"
           /\ \E j \in Ids \ {last'.pk} :
                 /\ Present(asset[j])
                 /\ asset[j].file.content = last'.given.file.content)
          => last'.error = "IntegrityError" /\ asset' = asset]_vars

\* C3, witness: an upload was refused for holding the bytes of an Asset of
\* another Book stored under another file name.
C3_Witness ==
    /\ AssetSaved
    /\ last.error = "IntegrityError"
    /\ \E j \in Ids \ {last.pk} :
          /\ Present(asset[j])
          /\ asset[j].file.content = last.given.file.content
          /\ asset[j].book # last.given.book
          /\ asset[j].file.name # UploadTo \o last.given.file.name

\* C4: every Asset save leaves file_extension the lowercased suffix of the
\* file's name, file_name the Book's display string, "." and that extension,
\* file_size the byte length of the content and file_hash the digest of the
\* whole content, with the read position at the start so that a read yields
\* the whole content; a save that succeeds persists these values and stores
\* the whole content.
C4_AssetFieldsRecomputed ==
    AssetSaved =>
        /\ last.inst.file_extension = DotSuffix(Lower(last.given.file.name))
        /\ last.inst.file_name =
               TitleLine(book[last.given.book]) \o <<".">> \o last.inst.file_extension
        /\ last.inst.file_size = Len(last.given.file.content)
        /\ last.inst.file_hash = blake2b(last.given.file.content)
        /\ last.inst.file.pos = 0
        /\ ReadData(last.inst.file) = last.given.file.content
        /\ last.error = "none" =>
               /\ asset[last.pk].file_extension = last.inst.file_extension
               /\ asset[last.pk].file_name = last.inst.file_name
               /\ asset[last.pk].file_size = last.inst.file_size
               /\ asset[last.pk].file_hash = last.inst.file_hash
               /\ asset[last.pk].file.content = last.given.file.content

\* C4, witness: a partly read upload with an upper-case extension, saved with
\* values of the caller's in the computed fields, was persisted.
C4_Witness ==
    /\ AssetSaved
    /\ last.error = "none"
    /\ last.given.file.pos > 0
    /\ last.given.file.pos < Len(last.given.file.content)
    /\ last.given.file_name = <<"z">>
    /\ last.given.file_size # Len(last.given.file.content)
    /\ last.inst.file_extension # DotSuffix(last.given.file.name)
    /\ asset[last.pk].file_size = 2

\* C5: no two persisted Books have the same (title, subtitle, edition,
\* volume), and saving a Book whose 4-tuple is that of another persisted Book
\* fails with a uniqueness violation and leaves the Book table unchanged.
C5_BookTupleUnique ==
    [][/\ \A i \in Ids : \A j \in Ids \ {i} :
             Present(book'[i]) /\ Present(book'[j])
                 => BookTuple(book'[i]) # BookTuple(book'[j])
       /\ (/\ last'.op = "save" /\ last'.kind = "Book"
           /\ \E j \in Ids \ {last'.pk} :
                 Present(book[j]) /\ BookTuple(book[j]) = BookTuple(last'.given))
          => last'.error = "IntegrityError" /\ book' = book]_vars

\* C5, witness: a Book was refused for its 4-tuple alone: another row has the
\* tuple, with empty optional fields, and no row has the slug.
C5_Witness ==
    /\ last.op = "save" /\ last.kind = "Book"
    /\ last.error = "IntegrityError"
    /\ last.given.subtitle = <<>>
    /\ \E j \in Ids \ {last.pk} :
          Present(book[j]) /\ BookTuple(book[j]) = BookTuple(last.given)
    /\ \A j \in Ids : Present(book[j]) => book[j].slug # last.inst.slug

\* C7 (as stated): a Book saved with publication_year 999 or 3001 is refused,
\* and every persisted Book has publication_year absent or within
\* [1000, 3000].
C7_YearWithinRange ==
    /\ \A i \in Ids :
          Present(book[i]) =>
              \A y \in book[i].publication_year : MinYear <= y /\ y <= MaxYear
    /\ (/\ last.op = "save" /\ last.kind = "Book"
        /\ last.given.publication_year \in {Some(MinYear - 1), Some(MaxYear + 1)})
       => last.error # "none"

\* C8: a Book's publisher, when set, is a persisted Publisher; deleting a
\* Publisher that a persisted Book references fails and changes neither
\* table, and deleting one that no Book references removes it and changes no
\* Book.
C8_PublisherProtected ==
    [][/\ \A b \in Ids :
             Present(book'[b]) =>
                 \A p \in book'[b].publisher : Present(taxonomy'["Publisher"][p])
       /\ (last'.op = "delete" /\ last'.kind = "Publisher") =>
              IF \E b \in Ids : Present(book[b]) /\ last'.pk \in book[b].publisher
              THEN /\ last'.error = "ProtectedError"
                   /\ taxonomy' = taxonomy
                   /\ book' = book
              ELSE /\ last'.error = "none"
                   /\ ~Present(taxonomy'["Publisher"][last'.pk])
                   /\ book' = book]_vars

\* C8, witness: the deletion of a Publisher was refused, and the Publisher
\* and the Book that references it are still there.
C8_Witness ==
    /\ last.op = "delete" /\ last.kind = "Publisher"
    /\ last.error = "ProtectedError"
    /\ Present(taxonomy["Publisher"][last.pk])
    /\ \E b \in Ids : Present(book[b]) /\ book[b].publisher = Some(last.pk)

\* C9: every persisted Asset and ReadingListBooks row references a persisted
\* Book; deleting a Book deletes exactly its Assets and its ReadingListBooks
\* rows, and no ReadingList, no taxonomy row, no other Book and no row of
\* another Book.
C9_BookDeleteCascades ==
    [][/\ \A a \in Ids : Present(asset'[a]) => Present(book'[asset'[a].book])
       /\ \A r \in Ids :
             Present(readinglistbooks'[r]) => Present(book'[readinglistbooks'[r].book])
       /\ (last'.op = "delete" /\ last'.kind = "Book") =>
              /\ ~Present(book'[last'.pk])
              /\ \A b \in Ids \ {last'.pk} : book'[b] = book[b]
              /\ \A a \in Ids :
                    asset'[a] = IF Present(asset[a]) /\ asset[a].book = last'.pk
                                THEN NoRow ELSE asset[a]
              /\ \A r \in Ids :
                    readinglistbooks'[r] =
                        IF Present(readinglistbooks[r])
                               /\ readinglistbooks[r].book = last'.pk
                        THEN NoRow ELSE readinglistbooks[r]
              /\ taxonomy' = taxonomy]_vars

\* C9, witness: a Book was deleted together with an Asset and a reading-list
\* row, and the reading list, a Tag and another Book with its Asset remain.
C9_Witness ==
    /\ last.op = "delete" /\ last.kind = "Book"
    /\ last.deleted >= 3
    /\ \E a \in Ids : Present(asset[a]) /\ asset[a].book # last.pk
    /\ \E l \in Ids : Present(taxonomy["ReadingList"][l])
    /\ \E t \in Ids : Present(taxonomy["Tag"][t])
    /\ \A a \in Ids : Present(asset[a]) => asset[a].book # last.pk
    /\ \A r \in Ids : ~Present(readinglistbooks[r])

\* C10: saving a Book changes no Asset row; the file_name of a persisted
\* Asset changes only in a save of that Asset, which sets it to the display
\* string the Book has then.
C10_BookSaveLeavesAssets ==
    [][/\ (last'.op = "save" /\ last'.kind = "Book") => asset' = asset
       /\ \A a \in Ids :
             (/\ Present(asset[a]) /\ Present(asset'[a])
              /\ asset'[a].file_name # asset[a].file_name)
             => last'.op = "save" /\ last'.kind = "Asset" /\ last'.pk = a
       /\ (last'.op = "save" /\ last'.kind = "Asset" /\ last'.error = "none") =>
              asset'[last'.pk].file_name =
                  TitleLine(book'[asset'[last'.pk].book]) \o <<".">>
                      \o asset'[last'.pk].file_extension]_vars

\* C10, witness: a Book was saved under a new title, and the file_name of its
\* Asset still carries the old one.
C10_Witness ==
    /\ last.op = "save" /\ last.kind = "Book" /\ last.error = "none"
    /\ \E a \in Ids :
          /\ Present(asset[a])
          /\ asset[a].book = last.pk
          /\ asset[a].file_name #
                 TitleLine(book[last.pk]) \o <<".">> \o asset[a].file_extension

============================================================================
